---- MODULE Spec2Model ----
(***************************************************************************)
(* NoiseTransport (src/noise_transport.rs): a Sink<U> + Stream adapter     *)
(* over Framed<NoiseSocket<T>, AsymmetricMessageCodec<U, V>>.              *)
(*                                                                         *)
(* Every method of the adapter is one delegating call, so the state of a   *)
(* transport is the state of the Framed value it owns: the write buffer,   *)
(* the read buffer and the read flags (eof, is_readable, has_errored).     *)
(* The Framed_* operators give the behaviour of tokio_util::codec::Framed  *)
(* that the delegating calls invoke.  The codec (encode / decode) and the  *)
(* secure channel (chan_poll_x) are collaborators whose code is not in     *)
(* noise_transport.rs; they are modelled from their interface contract.    *)
(***************************************************************************)
EXTENDS Integers, Sequences, FiniteSets, TLC

VARIABLES
    wbuf,        \* Framed write buffer: encoded bytes not yet written to the channel
    chan_out,    \* every byte the channel has accepted from poll_write, in order
    chan_dirty,  \* the channel holds accepted bytes that its own flush has not confirmed
    shut,        \* channel shutdown: "open", "closing" (signal issued), "done"
    chan_fault,  \* "none", or the fault the channel has suffered ("err_io", "err_integrity")
    rbuf,        \* Framed read buffer
    eof,         \* Framed read state: the last read returned 0 bytes
    is_readable, \* Framed read state: the buffer may hold a frame
    has_errored, \* Framed read state: the last poll_next returned an error
    peer,        \* the bytes the remote side puts on the wire towards this transport
    avail,       \* how many bytes of the inbound wire have arrived at the channel
    fin,         \* the remote side's clean closure has arrived at the channel
    rpos,        \* how many bytes the channel has handed to poll_read
    sent,        \* history: the messages start_send accepted, in order
    got,         \* history: the messages poll_next yielded, in order
    term,        \* history: the first terminal outcome poll_next yielded, "" before
    midframe,    \* history: a poll_next has returned Pending with part of a frame received
    ready_ok,    \* history: the last poll_ready since the last start_send returned Ready(Ok)
    unready,     \* history: number of start_send calls accepted without such a poll_ready
    closes,      \* history: number of poll_close calls that returned Ready(Ok)
    encfail,     \* history: the last start_send failed to encode its value
    io_failed,   \* history: a call has reported a failure of the byte transport
    res,         \* the last call and what it returned
    loopback     \* the inbound wire is this model's own outbound wire (a loopback pair)

vars == <<wbuf, chan_out, chan_dirty, shut, chan_fault, rbuf, eof, is_readable,
          has_errored, peer, avail, fin, rpos, sent, got, term, midframe, ready_ok,
          unready, closes, encfail, io_failed, res, loopback>>

outVars == <<wbuf, chan_out, chan_dirty, shut, sent, ready_ok, unready, closes, encfail>>
inVars  == <<rbuf, eof, is_readable, has_errored, rpos, got, term, midframe>>
envVars == <<peer, avail, fin, chan_fault, loopback>>

----------------------------------------------------------------------------
(* Bounds *)

MaxSent        == 2   \* start_send is accepted at most this many times
MaxPeerFrames  == 2   \* the remote side sends at most this many frames
MaxUnready     == 1   \* accepted start_send calls without a successful poll_ready
MaxCloses      == 2   \* successful poll_close calls

BackpressureBoundary == 3   \* Framed: write-buffer length at which poll_ready flushes

(* Codec configuration: the largest payload it encodes or accepts *)

MaxFrameLen == 2

\* message values; the largest one is too large for the codec to encode
Msgs == 1..(MaxFrameLen + 1)

Min(a, b) == IF a < b THEN a ELSE b

IsPrefix(s, t) == Len(s) <= Len(t) /\ SubSeq(t, 1, Len(s)) = s

Drop(s, n) == SubSeq(s, n + 1, Len(s))

----------------------------------------------------------------------------
(* Codec: one self-delimiting frame per message, a length byte followed by *)
(* the serialized value.  Value m serializes to m bytes of 1, so that a    *)
(* byte stream read from the wrong offset can still parse as frames.       *)

Serialize(m) == [i \in 1..m |-> 1]

Deserializable(p) == \E m \in Msgs : Serialize(m) = p

Deserialize(p) == CHOOSE m \in Msgs : Serialize(m) = p

Frame(m) == <<Len(Serialize(m))>> \o Serialize(m)

\* Encoder::encode(item, dst): appends one frame, or fails leaving dst as it was
encode(m, dst) ==
    IF Len(Serialize(m)) > MaxFrameLen
    THEN [r |-> "err_encode", buf |-> dst]
    ELSE [r |-> "ok", buf |-> dst \o Frame(m)]

\* Decoder::decode(src): "none" = need more bytes, "some" = one frame split
\* off src, "err_frame" = invalid length header (src untouched),
\* "err_decode" = a whole frame whose payload is no value (frame consumed)
decode(src) ==
    IF src = <<>> THEN [r |-> "none", m |-> 0, buf |-> src]
    ELSE LET n == src[1] IN
         IF n < 1 \/ n > MaxFrameLen THEN [r |-> "err_frame", m |-> 0, buf |-> src]
         ELSE IF Len(src) < 1 + n THEN [r |-> "none", m |-> 0, buf |-> src]
         ELSE LET p == SubSeq(src, 2, 1 + n) IN
              IF Deserializable(p)
              THEN [r |-> "some", m |-> Deserialize(p), buf |-> Drop(src, 1 + n)]
              ELSE [r |-> "err_decode", m |-> 0, buf |-> Drop(src, 1 + n)]

\* Decoder::decode_eof(src), the trait's default: decode, and an error when
\* bytes remain that are no frame
decode_eof(src) ==
    LET d == decode(src) IN
    IF d.r = "none" /\ src # <<>>
    THEN [r |-> "err_frame", m |-> 0, buf |-> src]
    ELSE d

RECURSIVE FramesOf(_)
FramesOf(ms) == IF ms = <<>> THEN <<>> ELSE Frame(Head(ms)) \o FramesOf(Tail(ms))

----------------------------------------------------------------------------
(* Secure channel, write side.  A call's inputs: w, the number of bytes    *)
(* the channel is able to take before it reports Pending; fl, whether its  *)
(* flush completes; sd, whether its shutdown completes (is accepted, on a  *)
(* channel already shut down).  A poll that returns Pending stores the     *)
(* waker of the context it was given for the readiness event ev.           *)

\* AsyncWrite::poll_write(buf) with room for w bytes
chan_poll_write(sh, buf, w) ==
    IF chan_fault # "none" THEN [r |-> chan_fault, n |-> 0, ev |-> ""]
    ELSE IF sh # "open" THEN [r |-> "err_closed", n |-> 0, ev |-> ""]
    ELSE IF w = 0 THEN [r |-> "pending", n |-> 0, ev |-> "write"]
    ELSE [r |-> "ok", n |-> Min(w, Len(buf)), ev |-> ""]

\* AsyncWrite::poll_flush when the channel is dirty or not
chan_poll_flush(dirty, fl) ==
    IF chan_fault # "none" THEN [r |-> chan_fault, dirty |-> dirty, ev |-> ""]
    ELSE IF ~dirty \/ fl THEN [r |-> "ok", dirty |-> FALSE, ev |-> ""]
    ELSE [r |-> "pending", dirty |-> dirty, ev |-> "flush"]

\* AsyncWrite::poll_shutdown: issues the shutdown signal; on a channel already
\* shut down it reports success or an "already closed" fault
chan_poll_shutdown(sh, sd) ==
    IF chan_fault # "none" THEN [r |-> chan_fault, shut |-> sh, ev |-> ""]
    ELSE IF sh = "done" THEN [r |-> IF sd THEN "ok" ELSE "err_closed", shut |-> sh, ev |-> ""]
    ELSE IF sd THEN [r |-> "ok", shut |-> "done", ev |-> ""]
    ELSE [r |-> "pending", shut |-> "closing", ev |-> "shutdown"]

----------------------------------------------------------------------------
(* Framed, sink side.  Each operator returns the call's result r, the      *)
(* outbound state o the call leaves and, for Pending, the event ev of the  *)
(* channel poll that returned it.                                          *)

OutState == [wbuf |-> wbuf, out |-> chan_out, dirty |-> chan_dirty, shut |-> shut]

\* variant: reports Ready(Ok) once the buffer is written, without flushing the channel
Framed_poll_flush_noflush(o, w, fl) ==
    IF o.wbuf # <<>>
    THEN LET wr == chan_poll_write(o.shut, o.wbuf, w) IN
         IF wr.r # "ok" THEN [r |-> wr.r, o |-> o, ev |-> wr.ev]
         ELSE LET o1 == [o EXCEPT !.wbuf = Drop(o.wbuf, wr.n),
                                  !.out = o.out \o SubSeq(o.wbuf, 1, wr.n),
                                  !.dirty = TRUE] IN
              IF o1.wbuf # <<>> THEN [r |-> "pending", o |-> o1, ev |-> "write"]
              ELSE [r |-> "ok", o |-> o1, ev |-> ""]
    ELSE [r |-> "ok", o |-> o, ev |-> ""]

\* variant: after a partial write the written bytes stay in the write buffer
Framed_poll_flush_resend(o, w, fl) ==
    IF o.wbuf # <<>>
    THEN LET wr == chan_poll_write(o.shut, o.wbuf, w) IN
         IF wr.r # "ok" THEN [r |-> wr.r, o |-> o, ev |-> wr.ev]
         ELSE IF wr.n = 0 THEN [r |-> "err_write_zero", o |-> o, ev |-> ""]
         ELSE LET o1 == [o EXCEPT !.wbuf = IF wr.n < Len(o.wbuf) THEN o.wbuf ELSE <<>>,
                                  !.out = o.out \o SubSeq(o.wbuf, 1, wr.n),
                                  !.dirty = TRUE] IN
              IF o1.wbuf # <<>>
              THEN LET wr2 == chan_poll_write(o1.shut, o1.wbuf, 0) IN
                   [r |-> wr2.r, o |-> o1, ev |-> wr2.ev]
              ELSE LET f == chan_poll_flush(o1.dirty, fl) IN
                   [r |-> f.r, o |-> [o1 EXCEPT !.dirty = f.dirty], ev |-> f.ev]
    ELSE LET f == chan_poll_flush(o.dirty, fl) IN
         [r |-> f.r, o |-> [o EXCEPT !.dirty = f.dirty], ev |-> f.ev]

\* Framed::poll_flush: write until the buffer is empty, then flush the channel
Framed_poll_flush(o, w, fl) ==
    IF o.wbuf # <<>>
    THEN LET wr == chan_poll_write(o.shut, o.wbuf, w) IN
         IF wr.r # "ok" THEN [r |-> wr.r, o |-> o, ev |-> wr.ev]
         ELSE IF wr.n = 0 THEN [r |-> "err_write_zero", o |-> o, ev |-> ""]
         ELSE LET o1 == [o EXCEPT !.wbuf = Drop(o.wbuf, wr.n),
                                  !.out = o.out \o SubSeq(o.wbuf, 1, wr.n),
                                  !.dirty = TRUE] IN
              IF o1.wbuf # <<>>
              THEN \* the next poll_write of the loop finds the channel full
                   LET wr2 == chan_poll_write(o1.shut, o1.wbuf, 0) IN
                   [r |-> wr2.r, o |-> o1, ev |-> wr2.ev]
              ELSE LET f == chan_poll_flush(o1.dirty, fl) IN
                   [r |-> f.r, o |-> [o1 EXCEPT !.dirty = f.dirty], ev |-> f.ev]
    ELSE LET f == chan_poll_flush(o.dirty, fl) IN
         [r |-> f.r, o |-> [o EXCEPT !.dirty = f.dirty], ev |-> f.ev]

\* Framed::poll_ready: flush when the buffer has reached the boundary
Framed_poll_ready(o, w, fl) ==
    IF Len(o.wbuf) >= BackpressureBoundary
    THEN Framed_poll_flush(o, w, fl)
    ELSE [r |-> "ok", o |-> o, ev |-> ""]

\* variant: encodes into a fresh buffer that replaces the write buffer
Framed_start_send_fresh(o, m) ==
    LET e == encode(m, <<>>) IN
    [r |-> e.r, o |-> [o EXCEPT !.wbuf = IF e.r = "ok" THEN e.buf ELSE o.wbuf], ev |-> ""]

\* variant: puts the frame's length slot into the write buffer before encoding
\* and leaves it there when encoding fails
Framed_start_send_reserve(o, m) ==
    LET e == encode(m, o.wbuf) IN
    [r |-> e.r,
     o |-> [o EXCEPT !.wbuf = IF e.r = "ok" THEN e.buf ELSE o.wbuf \o <<0>>],
     ev |-> ""]

\* Framed::start_send: encode into the write buffer
Framed_start_send(o, m) ==
    LET e == encode(m, o.wbuf) IN
    [r |-> e.r, o |-> [o EXCEPT !.wbuf = e.buf], ev |-> ""]

\* Framed::poll_close: flush, then shut the channel down
Framed_poll_close(o, w, fl, sd) ==
    LET f == Framed_poll_flush(o, w, fl) IN
    IF f.r # "ok" THEN f
    ELSE LET s == chan_poll_shutdown(f.o.shut, sd) IN
         [r |-> s.r, o |-> [f.o EXCEPT !.shut = s.shut], ev |-> s.ev]

SetOut(o) ==
    /\ wbuf' = o.wbuf
    /\ chan_out' = o.out
    /\ chan_dirty' = o.dirty
    /\ shut' = o.shut

\* the context a caller polls with carries the caller's waker
Caller == "caller"

\* what a call returned; for Pending, the event ev waited for and the waker wk
\* (that of the context cx handed down) stored for it
Result(op, r, m, ev, cx) ==
    [op |-> op, r |-> r, m |-> m, ev |-> ev, wk |-> IF ev = "" THEN "" ELSE cx]

----------------------------------------------------------------------------
(* NoiseTransport, Sink<U> *)

\* variant: delegates to the inner poll_flush instead of poll_ready
poll_ready_as_flush ==
    \E w \in 0..Len(wbuf), fl \in BOOLEAN :
        LET c == Framed_poll_flush(OutState, w, fl) IN
        /\ SetOut(c.o)
        /\ ready_ok' = (c.r = "ok")
        /\ res' = Result("poll_ready", c.r, 0, c.ev, Caller)
        /\ io_failed' = (io_failed \/ c.r = "err_io")
        /\ UNCHANGED <<encfail, sent, unready, closes>>
        /\ UNCHANGED inVars
        /\ UNCHANGED envVars

\* variant: reports ready without asking the inner sink
poll_ready_always ==
    /\ ready_ok' = TRUE
    /\ res' = Result("poll_ready", "ok", 0, "", Caller)
    /\ UNCHANGED <<wbuf, chan_out, chan_dirty, shut, io_failed>>
    /\ UNCHANGED <<encfail, sent, unready, closes>>
    /\ UNCHANGED inVars
    /\ UNCHANGED envVars

poll_ready ==
    \E w \in 0..Len(wbuf), fl \in BOOLEAN :
        LET c == Framed_poll_ready(OutState, w, fl) IN
        /\ SetOut(c.o)
        /\ ready_ok' = (c.r = "ok")
        /\ res' = Result("poll_ready", c.r, 0, c.ev, Caller)
        /\ io_failed' = (io_failed \/ c.r = "err_io")
        /\ UNCHANGED <<encfail, sent, unready, closes>>
        /\ UNCHANGED inVars
        /\ UNCHANGED envVars

\* variant: delegates to the inner poll_ready instead of poll_flush
poll_flush_as_ready ==
    \E w \in 0..Len(wbuf), fl \in BOOLEAN :
        LET c == Framed_poll_ready(OutState, w, fl) IN
        /\ SetOut(c.o)
        /\ res' = Result("poll_flush", c.r, 0, c.ev, Caller)
        /\ io_failed' = (io_failed \/ c.r = "err_io")
        /\ UNCHANGED <<encfail, sent, ready_ok, unready, closes>>
        /\ UNCHANGED inVars
        /\ UNCHANGED envVars

\* variant: polls the inner sink with a context of its own, whose waker
\* wakes nobody
poll_flush_noop_cx ==
    \E w \in 0..Len(wbuf), fl \in BOOLEAN :
        LET c == Framed_poll_flush(OutState, w, fl) IN
        /\ SetOut(c.o)
        /\ res' = Result("poll_flush", c.r, 0, c.ev, "noop")
        /\ io_failed' = (io_failed \/ c.r = "err_io")
        /\ UNCHANGED <<encfail, sent, ready_ok, unready, closes>>
        /\ UNCHANGED inVars
        /\ UNCHANGED envVars

poll_flush ==
    \E w \in 0..Len(wbuf), fl \in BOOLEAN :
        LET c == Framed_poll_flush(OutState, w, fl) IN
        /\ SetOut(c.o)
        /\ res' = Result("poll_flush", c.r, 0, c.ev, Caller)
        /\ io_failed' = (io_failed \/ c.r = "err_io")
        /\ UNCHANGED <<encfail, sent, ready_ok, unready, closes>>
        /\ UNCHANGED inVars
        /\ UNCHANGED envVars

\* variant: delegates to the inner poll_flush instead of poll_close
poll_close_as_flush ==
    \E w \in 0..Len(wbuf), fl \in BOOLEAN, sd \in BOOLEAN :
        LET c == Framed_poll_flush(OutState, w, fl) IN
        /\ closes < MaxCloses
        /\ SetOut(c.o)
        /\ closes' = IF c.r = "ok" THEN closes + 1 ELSE closes
        /\ res' = Result("poll_close", c.r, 0, c.ev, Caller)
        /\ io_failed' = (io_failed \/ c.r = "err_io")
        /\ UNCHANGED <<encfail, sent, ready_ok, unready>>
        /\ UNCHANGED inVars
        /\ UNCHANGED envVars

\* variant: shuts the channel down without flushing first
poll_close_noflush ==
    \E w \in 0..Len(wbuf), fl \in BOOLEAN, sd \in BOOLEAN :
        LET c == chan_poll_shutdown(shut, sd) IN
        /\ closes < MaxCloses
        /\ shut' = c.shut
        /\ closes' = IF c.r = "ok" THEN closes + 1 ELSE closes
        /\ res' = Result("poll_close", c.r, 0, c.ev, Caller)
        /\ io_failed' = (io_failed \/ c.r = "err_io")
        /\ UNCHANGED <<wbuf, chan_out, chan_dirty, encfail, sent, ready_ok, unready>>
        /\ UNCHANGED inVars
        /\ UNCHANGED envVars

poll_close ==
    \E w \in 0..Len(wbuf), fl \in BOOLEAN, sd \in BOOLEAN :
        LET c == Framed_poll_close(OutState, w, fl, sd) IN
        /\ closes < MaxCloses
        /\ SetOut(c.o)
        /\ closes' = IF c.r = "ok" THEN closes + 1 ELSE closes
        /\ res' = Result("poll_close", c.r, 0, c.ev, Caller)
        /\ io_failed' = (io_failed \/ c.r = "err_io")
        /\ UNCHANGED <<encfail, sent, ready_ok, unready>>
        /\ UNCHANGED inVars
        /\ UNCHANGED envVars

\* variant: tries to flush right after queueing the frame
start_send_eager ==
    \E m \in Msgs, w \in 0..(Len(wbuf) + MaxFrameLen + 1) :
        LET c == Framed_start_send(OutState, m)
            f == Framed_poll_flush(c.o, w, TRUE) IN
        /\ Len(sent) < MaxSent
        /\ ready_ok \/ unready < MaxUnready
        /\ SetOut(f.o)
        /\ sent' = IF c.r = "ok" THEN Append(sent, m) ELSE sent
        /\ unready' = IF c.r = "ok" /\ ~ready_ok THEN unready + 1 ELSE unready
        /\ ready_ok' = FALSE
        /\ encfail' = (c.r = "err_encode")
        /\ res' = Result("start_send", c.r, m, c.ev, Caller)
        /\ io_failed' = (io_failed \/ c.r = "err_io")
        /\ UNCHANGED closes
        /\ UNCHANGED inVars
        /\ UNCHANGED envVars

start_send ==
    \E m \in Msgs :
        LET c == Framed_start_send(OutState, m) IN
        /\ Len(sent) < MaxSent
        /\ ready_ok \/ unready < MaxUnready
        /\ SetOut(c.o)
        /\ sent' = IF c.r = "ok" THEN Append(sent, m) ELSE sent
        /\ unready' = IF c.r = "ok" /\ ~ready_ok THEN unready + 1 ELSE unready
        /\ ready_ok' = FALSE
        /\ encfail' = (c.r = "err_encode")
        /\ res' = Result("start_send", c.r, m, c.ev, Caller)
        /\ io_failed' = (io_failed \/ c.r = "err_io")
        /\ UNCHANGED closes
        /\ UNCHANGED inVars
        /\ UNCHANGED envVars

----------------------------------------------------------------------------
(* Secure channel, read side.  InWire is the byte stream travelling        *)
(* towards this transport: the remote side's bytes, or, for a loopback     *)
(* pair, the bytes the sink side has written.                              *)

InWire == IF loopback THEN chan_out ELSE peer

\* AsyncRead::poll_read: hands over every byte that has arrived; 0 bytes once
\* the remote side's closure has arrived
chan_poll_read(pos) ==
    IF chan_fault # "none" THEN [r |-> chan_fault, bytes |-> <<>>, ev |-> ""]
    ELSE IF avail > pos THEN [r |-> "ok", bytes |-> SubSeq(InWire, pos + 1, avail), ev |-> ""]
    ELSE IF fin THEN [r |-> "ok", bytes |-> <<>>, ev |-> ""]
    ELSE [r |-> "pending", bytes |-> <<>>, ev |-> "read"]

----------------------------------------------------------------------------
(* Framed, stream side: the loop of Framed::poll_next over the read state   *)
(* (reading, framing, pausing, paused, errored).                           *)

InState == [buf |-> rbuf, eof |-> eof, readable |-> is_readable,
            errored |-> has_errored, rpos |-> rpos]

IsErr(r) == r \in {"err_io", "err_integrity", "err_frame", "err_decode",
                   "err_closed", "err_write_zero", "err_encode"}

RECURSIVE Framed_poll_next(_)
RECURSIVE Framed_read(_)

\* variant: the bytes of a read replace the read buffer instead of extending it
Framed_read_overwrite(i) ==
    LET rd == chan_poll_read(i.rpos) IN
    IF IsErr(rd.r) THEN [r |-> rd.r, m |-> 0, i |-> [i EXCEPT !.errored = TRUE], ev |-> ""]
    ELSE IF rd.r = "pending" THEN [r |-> "pending", m |-> 0, i |-> i, ev |-> rd.ev]
    ELSE IF rd.bytes = <<>>
         THEN IF i.eof THEN [r |-> "none", m |-> 0, i |-> i, ev |-> ""]
              ELSE Framed_poll_next([i EXCEPT !.eof = TRUE, !.readable = TRUE])
         ELSE Framed_poll_next([i EXCEPT !.buf = rd.bytes,
                                         !.rpos = i.rpos + Len(rd.bytes),
                                         !.eof = FALSE, !.readable = TRUE])

\* variant: a read of zero bytes is taken for "no bytes yet", not for the
\* end of the stream
Framed_read_zero_pending(i) ==
    LET rd == chan_poll_read(i.rpos) IN
    IF IsErr(rd.r) THEN [r |-> rd.r, m |-> 0, i |-> [i EXCEPT !.errored = TRUE], ev |-> ""]
    ELSE IF rd.r = "pending" \/ rd.bytes = <<>>
    THEN [r |-> "pending", m |-> 0, i |-> i, ev |-> "read"]
    ELSE Framed_poll_next([i EXCEPT !.buf = i.buf \o rd.bytes,
                                    !.rpos = i.rpos + Len(rd.bytes),
                                    !.eof = FALSE, !.readable = TRUE])

\* the tail of the loop: read more bytes from the channel, then go round again
Framed_read(i) ==
    LET rd == chan_poll_read(i.rpos) IN
    IF IsErr(rd.r) THEN [r |-> rd.r, m |-> 0, i |-> [i EXCEPT !.errored = TRUE], ev |-> ""]
    ELSE IF rd.r = "pending" THEN [r |-> "pending", m |-> 0, i |-> i, ev |-> rd.ev]
    ELSE IF rd.bytes = <<>>
         THEN IF i.eof THEN [r |-> "none", m |-> 0, i |-> i, ev |-> ""]
              ELSE Framed_poll_next([i EXCEPT !.eof = TRUE, !.readable = TRUE])
         ELSE Framed_poll_next([i EXCEPT !.buf = i.buf \o rd.bytes,
                                         !.rpos = i.rpos + Len(rd.bytes),
                                         !.eof = FALSE, !.readable = TRUE])

\* the head of the loop
Framed_poll_next(i) ==
    IF i.errored
    THEN [r |-> "none", m |-> 0, i |-> [i EXCEPT !.readable = FALSE, !.errored = FALSE], ev |-> ""]
    ELSE IF i.readable /\ i.eof
    THEN LET d == decode_eof(i.buf) IN
         IF IsErr(d.r) THEN [r |-> d.r, m |-> 0, i |-> [i EXCEPT !.buf = d.buf, !.errored = TRUE], ev |-> ""]
         ELSE IF d.r = "none" THEN [r |-> "none", m |-> 0, i |-> [i EXCEPT !.readable = FALSE], ev |-> ""]
         ELSE [r |-> "msg", m |-> d.m, i |-> [i EXCEPT !.buf = d.buf], ev |-> ""]
    ELSE IF i.readable
    THEN LET d == decode(i.buf) IN
         IF IsErr(d.r) THEN [r |-> d.r, m |-> 0, i |-> [i EXCEPT !.buf = d.buf, !.errored = TRUE], ev |-> ""]
         ELSE IF d.r = "some" THEN [r |-> "msg", m |-> d.m, i |-> [i EXCEPT !.buf = d.buf], ev |-> ""]
         ELSE Framed_read([i EXCEPT !.readable = FALSE])
    ELSE Framed_read(i)

SetIn(i) ==
    /\ rbuf' = i.buf
    /\ eof' = i.eof
    /\ is_readable' = i.readable
    /\ has_errored' = i.errored
    /\ rpos' = i.rpos

IsTerminal(r) == r = "none" \/ IsErr(r)

----------------------------------------------------------------------------
(* NoiseTransport, Stream *)

\* variant: the bytes of an incomplete frame are dropped when the call suspends
poll_next_forgetful ==
    LET c == Framed_poll_next(InState) IN
    /\ SetIn(IF c.r = "pending" THEN [c.i EXCEPT !.buf = <<>>] ELSE c.i)
    /\ got' = IF c.r = "msg" THEN Append(got, c.m) ELSE got
    /\ term' = IF term = "" /\ IsTerminal(c.r) THEN c.r ELSE term
    /\ midframe' = (midframe \/ (c.r = "pending" /\ c.i.buf # <<>> /\ decode(c.i.buf).r = "none"))
    /\ res' = Result("poll_next", c.r, c.m, c.ev, Caller)
    /\ io_failed' = (io_failed \/ c.r = "err_io")
    /\ UNCHANGED outVars
    /\ UNCHANGED envVars

\* variant: an inbound fault shuts the whole transport down
poll_next_poison ==
    LET c == Framed_poll_next(InState) IN
    /\ SetIn(c.i)
    /\ got' = IF c.r = "msg" THEN Append(got, c.m) ELSE got
    /\ term' = IF term = "" /\ IsTerminal(c.r) THEN c.r ELSE term
    /\ midframe' = (midframe \/ (c.r = "pending" /\ c.i.buf # <<>> /\ decode(c.i.buf).r = "none"))
    /\ res' = Result("poll_next", c.r, c.m, c.ev, Caller)
    /\ io_failed' = (io_failed \/ c.r = "err_io")
    /\ shut' = IF IsErr(c.r) THEN "done" ELSE shut
    /\ UNCHANGED <<wbuf, chan_out, chan_dirty, sent, ready_ok, unready, closes, encfail>>
    /\ UNCHANGED envVars

poll_next ==
    LET c == Framed_poll_next(InState) IN
    /\ SetIn(c.i)
    /\ got' = IF c.r = "msg" THEN Append(got, c.m) ELSE got
    /\ term' = IF term = "" /\ IsTerminal(c.r) THEN c.r ELSE term
    /\ midframe' = (midframe \/ (c.r = "pending" /\ c.i.buf # <<>> /\ decode(c.i.buf).r = "none"))
    /\ res' = Result("poll_next", c.r, c.m, c.ev, Caller)
    /\ io_failed' = (io_failed \/ c.r = "err_io")
    /\ UNCHANGED outVars
    /\ UNCHANGED envVars

----------------------------------------------------------------------------
(* Environment: the network and the remote side *)

\* more bytes of the inbound wire arrive at the channel
Arrive ==
    \E n \in 1..(Len(InWire) - avail) :
        /\ ~fin
        /\ avail' = avail + n
        /\ UNCHANGED <<peer, fin, chan_fault, loopback, res, io_failed>>
        /\ UNCHANGED outVars
        /\ UNCHANGED inVars

\* the remote side's clean closure arrives, after all its bytes
PeerFin ==
    /\ ~fin
    /\ avail = Len(InWire)
    /\ loopback => shut = "done"
    /\ fin' = TRUE
    /\ UNCHANGED <<peer, avail, chan_fault, loopback, res, io_failed>>
    /\ UNCHANGED outVars
    /\ UNCHANGED inVars

\* the byte transport breaks, or the channel detects tampering
ChanFault ==
    \E f \in {"err_io", "err_integrity"} :
        /\ ~loopback
        /\ chan_fault = "none"
        /\ chan_fault' = f
        /\ UNCHANGED <<peer, avail, fin, loopback, res, io_failed>>
        /\ UNCHANGED outVars
        /\ UNCHANGED inVars

----------------------------------------------------------------------------
(* Remote side's byte streams: up to MaxPeerFrames frames, each a valid    *)
(* frame, a frame with an undecodable payload or an invalid header, the    *)
(* whole possibly cut short.                                               *)

BadPayloadFrame == <<1, 0>>
BadHeader == <<0>>

PeerItems == {Frame(m) : m \in 1..MaxFrameLen} \cup {BadPayloadFrame, BadHeader}

RECURSIVE Concats(_)
Concats(k) ==
    IF k = 0 THEN {<<>>}
    ELSE Concats(k - 1) \cup {s \o it : s \in Concats(k - 1), it \in PeerItems}

PeerStreams == UNION {{SubSeq(s, 1, n) : n \in 0..Len(s)} : s \in Concats(MaxPeerFrames)}

InitCommon ==
    /\ wbuf = <<>>
    /\ chan_out = <<>>
    /\ chan_dirty = FALSE
    /\ shut = "open"
    /\ chan_fault = "none"
    /\ rbuf = <<>>
    /\ eof = FALSE
    /\ is_readable = FALSE
    /\ has_errored = FALSE
    /\ avail = 0
    /\ fin = FALSE
    /\ rpos = 0
    /\ sent = <<>>
    /\ got = <<>>
    /\ term = ""
    /\ midframe = FALSE
    /\ ready_ok = FALSE
    /\ unready = 0
    /\ closes = 0
    /\ res = Result("new", "ok", 0, "", Caller)
    /\ encfail = FALSE
    /\ io_failed = FALSE

\* NoiseTransport::new over a channel whose remote side sends some stream
Init ==
    /\ InitCommon
    /\ peer \in PeerStreams
    /\ loopback = FALSE

Next ==
    \/ poll_ready
    \/ start_send
    \/ poll_flush
    \/ poll_close
    \/ poll_next
    \/ Arrive
    \/ PeerFin
    \/ ChanFault

Spec == Init /\ [][Next]_vars

\* two transports over a loopback pair: the sink of one, the stream of the other
InitLoop ==
    /\ InitCommon
    /\ peer = <<>>
    /\ loopback = TRUE

NextLoop ==
    \/ poll_ready
    \/ start_send
    \/ poll_flush
    \/ poll_close
    \/ poll_next
    \/ Arrive
    \/ PeerFin

SpecLoop == InitLoop /\ [][NextLoop]_vars

\* the caller drives only the sink and polls a stream whose remote side is silent
InitSink ==
    /\ InitCommon
    /\ peer = <<>>
    /\ loopback = FALSE

NextSink ==
    \/ poll_ready
    \/ start_send
    \/ poll_flush
    \/ poll_close
    \/ poll_next
    \/ PeerFin
    \/ ChanFault

SpecSink == InitSink /\ [][NextSink]_vars

\* the caller sends nothing: it polls the stream, and closes the sink
NextStream ==
    \/ poll_close
    \/ poll_next
    \/ Arrive
    \/ PeerFin
    \/ ChanFault

SpecStream == Init /\ [][NextStream]_vars

\* the caller drives both directions over a sound channel, without closing:
\* the remote side sends a message followed by a malformed frame, or a frame
\* with an undecodable payload followed by a message
DuplexStreams == {Frame(1) \o BadHeader, BadPayloadFrame \o Frame(1)}

InitDuplex ==
    /\ InitCommon
    /\ peer \in DuplexStreams
    /\ loopback = FALSE

NextDuplex ==
    \/ poll_ready
    \/ start_send
    \/ poll_flush
    \/ poll_next
    \/ Arrive
    \/ PeerFin

SpecDuplex == InitDuplex /\ [][NextDuplex]_vars

----------------------------------------------------------------------------
(* Properties *)

FlushedOk == res.op = "poll_flush" /\ res.r = "ok"

ClosedOk == res.op = "poll_close" /\ res.r = "ok"

\* C1: whenever poll_flush has returned Ready(Ok), the bytes the channel has
\* accepted are the frames of the messages start_send accepted, in the order
\* they were accepted, each once.
C1_OrderedDelivery == FlushedOk => chan_out = FramesOf(sent)

\* two different messages, each sent after a successful poll_ready, flushed
C1_Witness ==
    /\ FlushedOk
    /\ unready = 0
    /\ Len(sent) >= 2
    /\ sent[1] # sent[2]
    /\ chan_out = FramesOf(sent)

\* C10: poll_flush returns Ready(Ok) only when the write buffer is empty and
\* the channel's own flush has completed.
C10_FlushOkMeansAllOut == FlushedOk => (wbuf = <<>> /\ ~chan_dirty)

\* a flush that completed after bytes went out
C10_Witness == FlushedOk /\ chan_out # <<>> /\ wbuf = <<>> /\ ~chan_dirty

\* C2: once poll_next has yielded "stream ended" or a fault, every later
\* poll_next yields that same outcome.
C2_TerminalOutcomeRepeats ==
    (term # "" /\ res.op = "poll_next") => res.r = term

\* C3 as claimed: start_send is never accepted unless the last poll_ready since
\* the previous start_send returned Ready(Ok).
C3_UnreadyEnqueueRejected == unready = 0

\* C3, amended: a start_send without such a poll_ready is accepted; it appends
\* exactly the frame of its message behind the bytes already queued and
\* leaves the bytes the channel has accepted as they were.
C3_UnreadyEnqueueAppends ==
    [][(~ready_ok /\ sent' # sent) =>
          /\ \E m \in Msgs : sent' = Append(sent, m) /\ wbuf' = wbuf \o Frame(m)
          /\ chan_out' = chan_out
          /\ chan_out' \o wbuf' = FramesOf(sent')]_vars

\* an unready start_send accepted while an earlier frame is partly written
C3_Witness ==
    /\ unready > 0
    /\ res.op = "start_send" /\ res.r = "ok"
    /\ Len(sent) >= 2
    /\ chan_out # <<>>
    /\ ~IsPrefix(FramesOf(<<sent[1]>>), chan_out)

\* C4: the shutdown signal is issued only in a call that leaves every byte of
\* every accepted message written and flushed, and poll_close returns
\* Ready(Ok) only when the buffer is empty and the shutdown has completed.
C4_CloseFlushesFirst ==
    /\ [](ClosedOk => (shut = "done" /\ wbuf = <<>> /\ ~chan_dirty))
    /\ [][(shut = "open" /\ shut' # "open") =>
             (wbuf' = <<>> /\ ~chan_dirty' /\ chan_out' = FramesOf(sent'))]_vars

\* a close that completed with frames on the channel
C4_Witness ==
    /\ ClosedOk
    /\ closes = 1
    /\ sent # <<>>
    /\ chan_out = FramesOf(sent)

\* C5: after a poll_close has returned Ready(Ok), a call that follows a
\* successful poll_ready accepts no message and puts no byte on the channel.
C5_ClosedIsTerminal ==
    [][(closes > 0 /\ res.op = "poll_ready" /\ res.r = "ok") =>
          (sent' = sent /\ chan_out' = chan_out)]_vars

\* the messages of the frames of a byte stream, in order: frames whose payload
\* is no value are skipped, an invalid header or an incomplete frame ends it
RECURSIVE DecodeAll(_)
DecodeAll(bytes) ==
    LET d == decode(bytes) IN
    IF d.r = "some" THEN <<d.m>> \o DecodeAll(d.buf)
    ELSE IF d.r = "err_decode" THEN DecodeAll(d.buf)
    ELSE <<>>

\* the byte stream is made of well-formed frames only, the last possibly cut short
RECURSIVE ValidWire(_)
ValidWire(bytes) ==
    LET d == decode(bytes) IN
    IF d.r = "some" THEN ValidWire(d.buf) ELSE d.r = "none"

\* C6: over a loopback pair the stream side yields a prefix of the messages
\* the sink side accepted and never a fault; once the sink side has written
\* every accepted frame and the stream side has read every byte and reports
\* "not yet" or "ended", it has yielded exactly the accepted messages.
C6_LoopbackRoundTrip ==
    /\ IsPrefix(got, sent)
    /\ ~IsErr(term)
    /\ (/\ wbuf = <<>>
        /\ rpos = Len(chan_out)
        /\ res.op = "poll_next"
        /\ res.r \in {"pending", "none"}) => got = sent

\* both sides done: two different messages sent, closed, received, stream ended
C6_Witness ==
    /\ loopback
    /\ Len(sent) >= 2
    /\ sent[1] # sent[2]
    /\ got = sent
    /\ res.op = "poll_next" /\ res.r = "none"

\* C7: the messages poll_next has yielded are a prefix of the messages of the
\* complete frames among the bytes the channel has delivered, however the
\* deliveries split the byte stream.
C7_InboundOrder == IsPrefix(got, DecodeAll(SubSeq(peer, 1, rpos)))

\* a message yielded while the first bytes of the next frame are buffered
C7_Witness ==
    /\ Len(got) = 1
    /\ rbuf # <<>>
    /\ decode(rbuf).r = "none"
    /\ res.op = "poll_next" /\ res.r = "pending"
    /\ Len(DecodeAll(peer)) >= 2

\* C8: on a wire of well-formed frames, whatever polls returned Pending with
\* part of a frame received, poll_next yields only the wire's messages, in
\* order and each once, and reports a frame or decode fault only at end of
\* stream.
C8_CancellationSafe ==
    ValidWire(peer) =>
        /\ IsPrefix(got, DecodeAll(peer))
        /\ (res.op = "poll_next" /\ res.r \in {"err_frame", "err_decode"}) => eof

\* a poll that returned Pending inside a frame, then polls that yielded every
\* message of the wire
C8_Witness ==
    /\ ValidWire(peer)
    /\ midframe
    /\ res.op = "poll_next" /\ res.r = "msg"
    /\ got = DecodeAll(peer)
    /\ Len(got) >= 2
    /\ rpos = Len(peer)

----------------------------------------------------------------------------
\* the readiness events an operation may wait for
EventsOf(op) ==
    CASE op = "poll_next" -> {"read"}
      [] op = "poll_ready" -> {"write", "flush"}
      [] op = "poll_flush" -> {"write", "flush"}
      [] op = "poll_close" -> {"write", "flush", "shutdown"}
      [] OTHER -> {}

----------------------------------------------------------------------------
----------------------------------------------------------------------------
\* C12: a failure of the byte transport is fatal to both directions: once
\* any operation has reported it, no later operation on the transport,
\* inbound or outbound, succeeds.
C12_IOFaultIsFatal ==
    [][io_failed => (res' = res \/ res'.r \notin {"ok", "msg"})]_vars

----------------------------------------------------------------------------
\* a frame or decode fault has been yielded by poll_next
FrameFaulted == term \in {"err_frame", "err_decode"}

\* C15: the two directions share no queue state: a poll_next, whatever it
\* returns, leaves the write buffer and the outbound channel state unchanged;
\* poll_ready, start_send and poll_flush leave the read buffer and the
\* inbound state unchanged; and once poll_next has yielded a frame or decode
\* fault, a ready-check, an enqueue and a flush still succeed when the
\* channel takes the bytes.
C15_DirectionsIndependent ==
    /\ [][ /\ res'.op = "poll_next"
               => UNCHANGED <<wbuf, chan_out, chan_dirty, shut>>
           /\ res'.op \in {"poll_ready", "start_send", "poll_flush"}
               => UNCHANGED <<rbuf, eof, is_readable, has_errored, rpos>> ]_vars
    /\ [](FrameFaulted =>
            /\ Framed_poll_ready(OutState, Len(wbuf), TRUE).r = "ok"
            /\ Framed_start_send(OutState, 1).r = "ok"
            /\ Framed_poll_flush(OutState, Len(wbuf), TRUE).r = "ok")

\* the inbound direction is in its errored state after a malformed frame,
\* and a flush has put every accepted message on the channel
C15_Witness ==
    /\ term = "err_frame" /\ has_errored /\ got # <<>>
    /\ FlushedOk /\ sent # <<>> /\ chan_out = FramesOf(sent)

----------------------------------------------------------------------------
\* the call res' reports is one call of the inner operation of the same
\* name, made with the caller's arguments: the state it leaves and what it
\* returns are those of that one call
InnerCall ==
    \/ /\ res'.op \in {"poll_ready", "poll_flush", "poll_close"}
       /\ \E w \in 0..Len(wbuf), fl \in BOOLEAN, sd \in BOOLEAN :
            LET c == CASE res'.op = "poll_ready" -> Framed_poll_ready(OutState, w, fl)
                       [] res'.op = "poll_flush" -> Framed_poll_flush(OutState, w, fl)
                       [] res'.op = "poll_close" -> Framed_poll_close(OutState, w, fl, sd)
            IN /\ res' = Result(res'.op, c.r, 0, c.ev, Caller)
               /\ OutState' = c.o
               /\ InState' = InState
    \/ /\ res'.op = "start_send"
       /\ LET c == Framed_start_send(OutState, res'.m) IN
          /\ res' = Result("start_send", c.r, res'.m, c.ev, Caller)
          /\ OutState' = c.o
          /\ InState' = InState
    \/ /\ res'.op = "poll_next"
       /\ LET c == Framed_poll_next(InState) IN
          /\ res' = Result("poll_next", c.r, c.m, c.ev, Caller)
          /\ InState' = c.i
          /\ OutState' = OutState

\* C14: the transport is a pass-through: every step a sink or stream call
\* takes (a step that is not the network's or the remote side's) is exactly
\* one call of the corresponding inner operation with the same arguments,
\* leaves the state that call leaves and returns what it returns.
C14_PassThrough ==
    [][UNCHANGED <<avail, fin, chan_fault>> => InnerCall]_vars

\* a flush passed on a channel error while bytes were still queued
C14_Witness ==
    /\ res.op = "poll_flush" /\ res.r = "err_integrity"
    /\ wbuf # <<>> /\ chan_out # <<>>

----------------------------------------------------------------------------
\* C16: poll_ready returns Ready(Ok) only with fewer queued bytes than the
\* backpressure boundary, so while every accepted start_send followed such
\* a poll_ready the write buffer stays below the boundary plus the frame of
\* the last accepted message.
C16_ReadyBoundsBuffer ==
    /\ (res.op = "poll_ready" /\ res.r = "ok") => Len(wbuf) < BackpressureBoundary
    /\ (unready = 0 /\ sent # <<>>)
         => Len(wbuf) < BackpressureBoundary + Len(Frame(sent[Len(sent)]))
    /\ (unready = 0 /\ sent = <<>>) => wbuf = <<>>

\* every send followed a ready-check, the buffer has passed the boundary and
\* the ready-check is refused
C16_Witness ==
    /\ unready = 0 /\ Len(sent) > 1
    /\ Len(wbuf) >= BackpressureBoundary
    /\ res.op = "poll_ready" /\ res.r = "pending"

----------------------------------------------------------------------------
\* C17: start_send never writes to the channel and never suspends: the
\* channel's bytes change only in a poll_ready, poll_flush or poll_close
\* step, and a start_send step leaves the channel as it was and returns Ok
\* or an error, never Pending.
C17_EnqueueWritesNothing ==
    [][ /\ chan_out' # chan_out
            => res'.op \in {"poll_ready", "poll_flush", "poll_close"}
        /\ res'.op = "start_send"
            => /\ UNCHANGED <<chan_out, chan_dirty, shut>>
               /\ res'.r \in {"ok", "err_encode"} ]_vars

\* the message just enqueued lies wholly in the write buffer, behind an
\* earlier one that is wholly on the channel
C17_Witness ==
    /\ res.op = "start_send" /\ res.r = "ok"
    /\ Len(sent) = 2
    /\ chan_out = Frame(sent[1])
    /\ wbuf = Frame(sent[2])

\* C18: partial writes preserve the byte stream: the bytes the channel has
\* taken, followed by the bytes still in the write buffer, are at every
\* moment the concatenation of the frames of the accepted messages in
\* order; no byte is lost, repeated or interleaved.
C18_ByteStreamPreserved ==
    /\ chan_out \o wbuf = FramesOf(sent)
    /\ IsPrefix(chan_out, FramesOf(sent))

\* a flush was suspended with a frame split between channel and buffer
C18_Witness ==
    /\ res.op = "poll_flush" /\ res.r = "pending"
    /\ Len(sent) = 2
    /\ Len(chan_out) > Len(Frame(sent[1]))
    /\ wbuf # <<>>

----------------------------------------------------------------------------
\* the read buffer holds the beginning of a frame and no complete frame
CutFrameBuffered == rbuf # <<>> /\ decode(rbuf).r = "none"

\* what is left of a byte stream behind its complete frames
RECURSIVE Remainder(_)
Remainder(bytes) ==
    LET d == decode(bytes) IN
    IF d.r \in {"some", "err_decode"} THEN Remainder(d.buf) ELSE bytes

\* the bytes received end inside a frame
CutWire ==
    LET r == Remainder(SubSeq(peer, 1, rpos)) IN r # <<>> /\ decode(r).r = "none"

\* C19: when the channel has reached end of stream with an incomplete frame
\* received, poll_next yields no message built from it: a poll_next made at
\* the end of the stream with the incomplete frame at the head of the read
\* buffer returns an error or the end of the stream and yields nothing, and
\* the messages yielded are those of the complete frames received, never
\* more.
C19_CutFrameYieldsNoMessage ==
    /\ []((eof /\ CutWire) => IsPrefix(got, DecodeAll(SubSeq(peer, 1, rpos))))
    /\ []((eof /\ CutFrameBuffered) => got = DecodeAll(SubSeq(peer, 1, rpos)))
    /\ [][(/\ fin /\ rpos = avail /\ CutFrameBuffered
            /\ res'.op = "poll_next"
            /\ UNCHANGED <<avail, fin, chan_fault>>)
           => (IsTerminal(res'.r) /\ got' = got)]_vars

\* the stream ended inside the second frame: one message was yielded, then
\* the error
C19_Witness ==
    /\ eof /\ CutFrameBuffered /\ CutWire
    /\ fin /\ rpos = Len(peer)
    /\ got # <<>>
    /\ res.op = "poll_next" /\ res.r = "err_frame"

====
